---- MODULE Spec2Model ----
(***************************************************************************)
(* Inline completion request pipeline of the VS Code extension:            *)
(* getTabCompletion (extensions/vscode/src/autocomplete/getTabCompletion.ts)*)
(* together with the process-wide completion cache, the generator reuse    *)
(* manager and the stream-shaping pipeline it drives.                      *)
(*                                                                         *)
(* Text is modelled as a sequence of one-character strings.                *)
(***************************************************************************)
EXTENDS Integers, Sequences, FiniteSets, TLC

\* ------------------------------------------------------------------------
\* Bounds of the model
\* ------------------------------------------------------------------------
\* deltas one model stream delivers at most
MaxDeltas == 2
\* capacity N of the completion cache
CacheCapacity == 1
\* largest capacity of a cache taken on its own
MaxCapacity == 2

\* the host issues two calls of getTabCompletion, one after the other or
\* overlapping
Calls == {1, 2}

None == <<"none">>

\* ------------------------------------------------------------------------
\* Text helpers
\* ------------------------------------------------------------------------
IsWs(ch) == ch \in {" ", "\n"}

IsWhitespace(s) == \A i \in 1..Len(s) : IsWs(s[i])

RECURSIVE TrimEnd(_)
\* String.prototype.trimEnd
TrimEnd(s) ==
    IF s = <<>> THEN <<>>
    ELSE IF IsWs(s[Len(s)]) THEN TrimEnd(SubSeq(s, 1, Len(s) - 1))
    ELSE s

RECURSIVE TrimStart(_)
TrimStart(s) ==
    IF s = <<>> THEN <<>>
    ELSE IF IsWs(s[1]) THEN TrimStart(Tail(s))
    ELSE s

\* String.prototype.trim
Trim(s) == TrimStart(TrimEnd(s))

\* String.prototype.endsWith
EndsWith(s, t) ==
    /\ Len(t) <= Len(s)
    /\ SubSeq(s, Len(s) - Len(t) + 1, Len(s)) = t

\* String.prototype.startsWith
StartsWith(s, t) ==
    /\ Len(t) <= Len(s)
    /\ SubSeq(s, 1, Len(t)) = t

\* ------------------------------------------------------------------------
\* Inputs: documents, language, context snippets, failures, model deltas
\* ------------------------------------------------------------------------
\* lang.endOfLine of the document's language
EndOfLine == { <<";">> }

\* document state at the cursor: the cursor's line, pos.character and the
\* line below the cursor
Docs ==
    { [line |-> <<"f", "o">>, col |-> 1, below |-> <<";">>],
      [line |-> <<"f", "o">>, col |-> 2, below |-> <<";">>],
      [line |-> <<"b">>,      col |-> 1, below |-> <<>>],
      [line |-> <<"f", ";">>, col |-> 2, below |-> <<";">>] }

\* getDefinitionsFromLsp: the snippets the language server knows for the
\* document
Definitions(d) == IF d.line = <<"b">> THEN <<"s">> ELSE <<>>

\* messages of the errors collaborators can throw
Messages == { "m1", "m2" }

\* text deltas the model stream can deliver
Deltas == { <<"a", "\n">>, <<" ">>, <<";", "\n">> }

\* document.getText(Range((0,0), pos))
FullPrefix(d) == SubSeq(d.line, 1, d.col)

\* document.getText(Range(pos, end of document))
FullSuffix(d) == SubSeq(d.line, d.col + 1, Len(d.line)) \o <<"\n">> \o d.below

\* the filter with the cursor required past the end of the line
FilterStrict(d) ==
    \E endOfLine \in EndOfLine :
        EndsWith(d.line, endOfLine) /\ d.col > Len(d.line)

\* the filter at the head of getTabCompletion
Filter(d) ==
    \E endOfLine \in EndOfLine :
        EndsWith(d.line, endOfLine) /\ d.col >= Len(d.line)

\* constructAutocompletePrompt: the prefix carries the snippets ahead of
\* the text before the cursor
ConstructPrefix(d, extrasSnippets) == extrasSnippets \o FullPrefix(d)

ConstructSuffix(d) == FullSuffix(d)

\* compiledTemplate({ prefix, suffix })
Render(prefix, suffix) ==
    <<"<fim_prefix>">> \o prefix \o <<"<fim_suffix>">> \o suffix
        \o <<"<fim_middle>">>

\* JavaScript truthiness of a cache lookup result
Truthy(v) == v # None /\ v # <<>>

\* ------------------------------------------------------------------------
\* CompletionCache (AutocompleteLruCache): a sequence of entries,
\* least recently used first
\* ------------------------------------------------------------------------
CacheKeys(c) == { c[i].key : i \in 1..Len(c) }

CacheWithout(c, key) == SelectSeq(c, LAMBDA e : e.key # key)

\* cache.get(key): the stored value, or None
CacheGet(c, key) ==
    IF key \in CacheKeys(c)
    THEN (CHOOSE e \in { c[i] : i \in 1..Len(c) } : e.key = key).value
    ELSE None

\* a cache.get that leaves the recency order alone
CacheTouchNone(c, key) == c

\* the recency bump a hit of cache.get performs
CacheTouch(c, key) ==
    IF key \in CacheKeys(c)
    THEN CacheWithout(c, key) \o << [key |-> key, value |-> CacheGet(c, key)] >>
    ELSE c

\* cache.put(key, value) on a cache of the given capacity: insert or
\* overwrite, then evict beyond the capacity
CachePutAt(c, key, value, capacity) ==
    LET n == CacheWithout(c, key) \o << [key |-> key, value |-> value] >>
    IN  IF Len(n) > capacity THEN Tail(n) ELSE n

\* cache.put(key, value) on autocompleteCache
CachePut(c, key, value) == CachePutAt(c, key, value, CacheCapacity)

\* ------------------------------------------------------------------------
\* StreamStopPipeline: onlyWhitespaceAfterEndOfLine, streamLines,
\* streamWithNewLines, stopAtSimilarLine
\* ------------------------------------------------------------------------
\* state of the pipeline of one call
\*   suppress  a line made only of an end-of-line marker was produced and
\*             nothing but whitespace followed it
\*   cur       the text of the line being produced (suppressor's view)
\*   buffer    streamLines' partial line
\*   first     streamWithNewLines has emitted no line yet
\*   stopped   stopAtSimilarLine has ended the pipeline
PipeInit ==
    [suppress |-> FALSE, cur |-> <<>>, buffer |-> <<>>, first |-> TRUE,
     stopped |-> FALSE]

RECURSIVE ScanLine(_, _, _)
\* the suppressor's bookkeeping over the characters of a delta it lets pass
ScanLine(cur, suppress, d) ==
    IF d = <<>> THEN [cur |-> cur, suppress |-> suppress]
    ELSE IF d[1] = "\n"
         THEN ScanLine(<<>>, suppress \/ cur \in EndOfLine, Tail(d))
    ELSE IF IsWs(d[1])
         THEN ScanLine(Append(cur, d[1]), suppress, Tail(d))
    ELSE ScanLine(Append(cur, d[1]), FALSE, Tail(d))

\* onlyWhitespaceAfterEndOfLine on one delta: what it passes on
Suppressed(p, d) == p.suppress /\ IsWhitespace(d)

RECURSIVE SplitLines(_, _)
\* streamLines: the complete lines of buffer \o d, and the partial rest
SplitLines(buffer, d) ==
    IF d = <<>> THEN [lines |-> <<>>, rest |-> buffer]
    ELSE IF d[1] = "\n"
         THEN LET r == SplitLines(<<>>, Tail(d))
              IN  [lines |-> <<buffer>> \o r.lines, rest |-> r.rest]
    ELSE SplitLines(Append(buffer, d[1]), Tail(d))

\* stopAtSimilarLine's test of a chunk against lineBelowCursor
Similar(chunk, lineBelowCursor) ==
    /\ Trim(lineBelowCursor) # <<>>
    /\ Trim(chunk) = Trim(lineBelowCursor)

RECURSIVE EmitChunksInclusive(_, _)
\* stopAtSimilarLine letting the matching chunk through before it stops
EmitChunksInclusive(chunks, lineBelowCursor) ==
    IF chunks = <<>> THEN [out |-> <<>>, stopped |-> FALSE]
    ELSE IF Similar(chunks[1], lineBelowCursor)
         THEN [out |-> chunks[1], stopped |-> TRUE]
    ELSE LET r == EmitChunksInclusive(Tail(chunks), lineBelowCursor)
         IN  [out |-> chunks[1] \o r.out, stopped |-> r.stopped]

RECURSIVE EmitChunks(_, _)
\* stopAtSimilarLine over the chunks of streamWithNewLines: the text that
\* reaches the caller and whether the pipeline stopped
EmitChunks(chunks, lineBelowCursor) ==
    IF chunks = <<>> THEN [out |-> <<>>, stopped |-> FALSE]
    ELSE IF Similar(chunks[1], lineBelowCursor)
         THEN [out |-> <<>>, stopped |-> TRUE]
    ELSE LET r == EmitChunks(Tail(chunks), lineBelowCursor)
         IN  [out |-> chunks[1] \o r.out, stopped |-> r.stopped]

RECURSIVE WithNewLines(_, _)
\* streamWithNewLines: a "\n" chunk ahead of every line but the first
WithNewLines(lines, first) ==
    IF lines = <<>> THEN <<>>
    ELSE (IF first THEN <<>> ELSE << <<"\n">> >>) \o << lines[1] >>
             \o WithNewLines(Tail(lines), FALSE)

\* the lines streamLines hands on, through the two last stages
PipeLines(p, lines, rest, lineBelowCursor) ==
    LET e == EmitChunks(WithNewLines(lines, p.first), lineBelowCursor)
    IN  [pipe |-> [p EXCEPT !.buffer = rest,
                            !.first = p.first /\ lines = <<>>,
                            !.stopped = e.stopped],
         out |-> e.out]

\* one delta through the whole pipeline: the new state and the text the
\* caller appends to the completion
PipeFeed(p, d, lineBelowCursor) ==
    IF Suppressed(p, d) THEN [pipe |-> p, out |-> <<>>]
    ELSE LET sc == ScanLine(p.cur, p.suppress, d)
             sp == SplitLines(p.buffer, d)
             q  == [p EXCEPT !.cur = sc.cur, !.suppress = sc.suppress]
         IN  PipeLines(q, sp.lines, sp.rest, lineBelowCursor)

\* the upstream ended: streamLines flushes its partial line
PipeFlush(p, lineBelowCursor) ==
    IF p.buffer = <<>> THEN [pipe |-> p, out |-> <<>>]
    ELSE PipeLines(p, << p.buffer >>, <<>>, lineBelowCursor)

\* ------------------------------------------------------------------------
\* State
\* ------------------------------------------------------------------------
VARIABLES
    call,         \* per call of getTabCompletion: position, token, locals
    cache,        \* autocompleteCache
    streams,      \* the streams streamComplete has started, by id
    pending,      \* GeneratorReuseManager: id of the pending stream, or 0
    errorsShown,  \* ContinueCompletionProvider.errorsShown
    shown,        \* messages passed to vscode.window.showErrorMessage
    cacheOp,      \* the cache on its own: capacity and last operation
    stopCase,     \* the stop list on its own: inputs and the list computed
    llmCase       \* llmFromDescription on its own: arguments and result

\* the variables of the three specifications of one operation on its own
aux == <<cacheOp, stopCase, llmCase>>

vars == <<call, cache, streams, pending, errorsShown, shown, aux>>

NoDoc == [line |-> <<>>, col |-> 0, below |-> <<>>]

NoResult == [state |-> "None", completion |-> <<>>, prompt |-> <<>>,
             cacheHit |-> FALSE]

NoError == [kind |-> "none", message |-> "none"]

\* the three specifications of one operation are at rest in Spec
NoCacheOp ==
    [capacity |-> 0, op |-> "none", key |-> "none", result |-> None,
     read |-> "none", evicted |-> {}, order |-> <<>>]

NoStopCase ==
    [stage |-> "none", template |-> FALSE,
     modelOptions |-> [defined |-> FALSE, stop |-> None],
     stopWords |-> <<>>, multilineCompletions |-> "auto",
     completeMultiline |-> FALSE, stop |-> <<>>]

NoLlmCase == [stage |-> "none"]

NoInstance == [cls |-> "undefined"]

CallInit ==
    [pc |-> "idle", doc |-> NoDoc, token |-> FALSE, after |-> {},
     timedOut |-> FALSE, extras |-> <<>>,
     prefix |-> <<>>, prompt |-> <<>>,
     stream |-> 0, used |-> 0, got |-> 0, pipe |-> PipeInit,
     completion |-> <<>>,
     cancelled |-> FALSE, did |-> {}, result |-> NoResult, err |-> NoError,
     stored |-> FALSE]

Init ==
    /\ call = [c \in Calls |-> CallInit]
    /\ cache = <<>>
    /\ streams = <<>>
    /\ pending = 0
    /\ errorsShown = {}
    /\ shown = <<>>
    /\ cacheOp = NoCacheOp
    /\ stopCase = NoStopCase
    /\ llmCase = NoLlmCase

\* ------------------------------------------------------------------------
\* Returns of getTabCompletion
\* ------------------------------------------------------------------------
\* the call returns: its locals go out of scope
Returned(r) ==
    [r EXCEPT !.pc = "done", !.token = FALSE, !.timedOut = FALSE,
              !.extras = <<>>,
              !.prefix = <<>>, !.stream = 0, !.pipe = PipeInit,
              !.completion = <<>>, !.cancelled = FALSE]

\* `return undefined` / `return;`
Absent(r, state) ==
    [Returned(r) EXCEPT !.result = [NoResult EXCEPT !.state = state]]

\* the outcome record with cacheHit left at its initial value
OutcomeHitUnset(r, completion, cacheHit) ==
    [Returned(r) EXCEPT
        !.result = [state |-> "Served", completion |-> completion,
                    prompt |-> r.prompt, cacheHit |-> FALSE]]

\* an outcome withheld from a call whose token is tripped
OutcomeUnlessCancelled(r, completion, cacheHit) ==
    IF r.token THEN Absent(r, "Cancelled")
    ELSE [Returned(r) EXCEPT
             !.result = [state |-> "Served", completion |-> completion,
                         prompt |-> r.prompt, cacheHit |-> cacheHit]]

\* the outcome record built at the end of the try block; "tripped" notes
\* that the token was tripped when the outcome was returned
Outcome(r, completion, cacheHit) ==
    [Returned(r) EXCEPT
        !.did = IF r.token THEN @ \cup {"tripped"} ELSE @,
        !.result = [state |-> "Served", completion |-> completion,
                    prompt |-> r.prompt, cacheHit |-> cacheHit]]

\* what follows the accumulation loop, without the test for an empty
\* completion
FinalizeKeepEmpty(r) ==
    IF r.cancelled THEN Absent(r, "Cancelled")
    ELSE Outcome(r, TrimEnd(r.completion), FALSE)

\* what follows the accumulation loop, without the test of cancelled
FinalizeIgnoreCancel(r) ==
    IF Len(Trim(r.completion)) <= 0 THEN Absent(r, "Empty")
    ELSE Outcome(r, TrimEnd(r.completion), FALSE)

\* what follows the accumulation loop, were the token read there as well
FinalizeTokenCancels(r) ==
    IF r.cancelled \/ r.token THEN Absent(r, "Cancelled")
    ELSE IF Len(Trim(r.completion)) <= 0 THEN Absent(r, "Empty")
    ELSE Outcome(r, TrimEnd(r.completion), FALSE)

\* what follows the accumulation loop on the miss path
Finalize(r) ==
    IF r.cancelled THEN Absent(r, "Cancelled")
    ELSE IF Len(Trim(r.completion)) <= 0 THEN Absent(r, "Empty")
    ELSE Outcome(r, TrimEnd(r.completion), FALSE)

\* the catch block without its test of errorsShown
AlreadyShownNever(es, message) == FALSE

\* the catch block: has the message been shown already?
AlreadyShown(es, message) == message \in es

\* a catch block that sends the call back to the cache probe after a stream
\* error
ThrownRetry(r, kind, message) ==
    IF kind = "stream"
    THEN [r EXCEPT !.pc = "probe", !.stream = 0, !.pipe = PipeInit,
                   !.completion = <<>>,
                   !.err = [kind |-> kind, message |-> message]]
    ELSE [Absent(r, "Failed") EXCEPT
             !.err = [kind |-> kind, message |-> message]]

\* the call's end of the catch block: `return undefined`
Thrown(r, kind, message) ==
    [Absent(r, "Failed") EXCEPT !.err = [kind |-> kind, message |-> message]]

\* the catch block recording the message without showing it
ShowNever(es, sh, message) ==
    [errorsShown |-> es \cup {message}, shown |-> sh]

\* the host's end of the catch block: errorsShown and showErrorMessage
ShowOnce(es, sh, message) ==
    IF ~AlreadyShown(es, message)
    THEN [errorsShown |-> es \cup {message}, shown |-> Append(sh, message)]
    ELSE [errorsShown |-> es, shown |-> sh]

\* the catch block of getTabCompletion, for one call
Catch(c, kind, message) ==
    /\ call' = [call EXCEPT ![c] = Thrown(@, kind, message)]
    /\ errorsShown' = ShowOnce(errorsShown, shown, message).errorsShown
    /\ shown' = ShowOnce(errorsShown, shown, message).shown

\* ------------------------------------------------------------------------
\* GeneratorReuseManager (the coalescer)
\* ------------------------------------------------------------------------
\* the compatibility relation: the pending stream's recorded prefix is a
\* prefix of (or equal to) the new request's prefix
Compatible(keyPrefix, prefixText) == StartsWith(prefixText, keyPrefix)

\* getGenerator never sharing, and sharing whatever is pending
CanShareNever(prefixText) == FALSE

CanShareAny(prefixText) == pending # 0

\* getGenerator's test: is there a pending stream this request can share?
CanShare(prefixText) ==
    /\ pending # 0
    /\ Compatible(streams[pending].keyPrefix, prefixText)

\* ids of the streams: each call starts one at most
StreamIds == 1..Cardinality(Calls)

\* llm.streamComplete(prompt, ...): a fresh stream
NewStream(c, prefixText, prompt) ==
    [keyPrefix |-> prefixText, prompt |-> prompt, by |-> c,
     deltas |-> <<>>, status |-> "live"]

\* a stream that ended, failed or was abandoned: its buffer is dropped
Destroyed(st, status) ==
    [st EXCEPT !.deltas = <<>>, !.status = status]

\* the calls consuming stream s
Subscribers(s) ==
    { c \in Calls : call[c].pc = "stream" /\ call[c].stream = s }

\* ------------------------------------------------------------------------
\* The accumulation loop of getTabCompletion
\* ------------------------------------------------------------------------
\* generatorWithCancellation's test on a received delta
CancelSeen(r) == r.token

\* a loop that does not notice the end of its stream
ExhaustHang(r) == r

\* the stream of call r is exhausted: the pipeline drains, the loop ends
\* (the flushed pipeline f is a value bound once)
Exhaust(r) ==
    CHOOSE v \in { Finalize([r EXCEPT !.pipe = f.pipe,
                                      !.completion = @ \o f.out]) :
                      f \in { PipeFlush(r.pipe, r.doc.below) } } : TRUE

\* the loop putting each update ahead of the text accumulated so far
ReceivePrepend(c, r, d) ==
    IF CancelSeen(r)
    THEN Exhaust([r EXCEPT !.cancelled = TRUE, !.got = @ + 1])
    ELSE LET f == PipeFeed(r.pipe, d, r.doc.below)
             q == [r EXCEPT !.pipe = f.pipe, !.completion = f.out \o @,
                            !.got = @ + 1]
         IN  IF f.pipe.stopped THEN Finalize(q) ELSE q

\* call c receives delta d: generatorWithCancellation either sees the token
\* tripped, sets cancelled and returns, or yields the delta to the pipeline,
\* whose output the loop appends; the call is finalized when the pipeline
\* has ended
\* (the fed pipeline f and the call q are values bound once)
Receive(c, r, d) ==
    IF CancelSeen(r)
    THEN Exhaust([r EXCEPT !.cancelled = TRUE, !.got = @ + 1])
    ELSE CHOOSE v \in
           { IF q.pipe.stopped THEN Finalize(q) ELSE q :
               q \in { [r EXCEPT !.pipe = f.pipe, !.completion = @ \o f.out,
                                 !.got = @ + 1] :
                          f \in { PipeFeed(r.pipe, d, r.doc.below) } } } : TRUE

RECURSIVE Replay(_, _, _)
\* a call that joins a pending stream receives the buffered deltas first
\* (the call after each delta, q, is a value bound once)
Replay(c, r, ds) ==
    IF ds = <<>> \/ r.pc # "stream" THEN r
    ELSE CHOOSE v \in { Replay(c, q, Tail(ds)) :
                          q \in { Receive(c, r, ds[1]) } } : TRUE

\* ------------------------------------------------------------------------
\* getTabCompletion, one action per stretch between two awaits
\* ------------------------------------------------------------------------
\* the outcomes that calls on document d have been served and returned
ServedSoFar(d) ==
    { call[o].result : o \in { x \in Calls : /\ call[x].pc = "done"
                                              /\ call[x].doc = d
                                              /\ call[x].result.state = "Served" } }

\* the host calls getTabCompletion: the filter, up to the first await
Start(c, d) ==
    /\ call[c].pc = "idle"
    /\ \A o \in Calls : o < c => call[o].pc # "idle"
    /\ LET r == [CallInit EXCEPT !.doc = d, !.after = ServedSoFar(d)]
       IN  call' = [call EXCEPT ![c] =
                      IF Filter(d) THEN Absent(r, "Empty")
                      ELSE [r EXCEPT !.pc = "resolve"]]
    /\ UNCHANGED <<aux, cache, streams, pending, errorsShown, shown>>

\* await tabAutocompleteModel.get() returns a model
ResolveModel(c) ==
    /\ call[c].pc = "resolve"
    /\ call' = [call EXCEPT ![c] =
                  [@ EXCEPT !.pc = "context", !.did = @ \cup {"resolve"}]]
    /\ UNCHANGED <<aux, cache, streams, pending, errorsShown, shown>>

\* await tabAutocompleteModel.get() returns nothing: `if (!llm) return`
ResolveAbsent(c) ==
    /\ call[c].pc = "resolve"
    /\ call' = [call EXCEPT ![c] =
                  Absent([@ EXCEPT !.did = @ \cup {"resolve"}], "Empty")]
    /\ UNCHANGED <<aux, cache, streams, pending, errorsShown, shown>>

\* await tabAutocompleteModel.get() throws
ResolveFails(c, message) ==
    /\ call[c].pc = "resolve"
    /\ Catch(c, "resolve", message)
    /\ UNCHANGED <<aux, cache, streams, pending>>

\* a race whose result is the lookup's even after the timer has fired
RaceLate(d, timedOut) == Definitions(d)

\* Promise.race of getDefinitionsFromLsp against the timer that resolves to
\* []: the snippets of whichever settles first
Race(d, timedOut) == IF timedOut THEN <<>> ELSE Definitions(d)

\* clipboard, the race of getDefinitionsFromLsp against the 100 ms timer,
\* constructAutocompletePrompt and the template: the prompt is rendered
BuildContext(c, timedOut) ==
    /\ call[c].pc = "context"
    /\ LET extras == Race(call[c].doc, timedOut)
           prefix == ConstructPrefix(call[c].doc, extras)
           suffix == ConstructSuffix(call[c].doc)
       IN  call' = [call EXCEPT ![c] =
                      [@ EXCEPT !.pc = "probe",
                                !.timedOut = timedOut,
                                !.extras = extras,
                                !.prefix = prefix,
                                !.prompt = Render(prefix, suffix),
                                !.did = @ \cup {"context"}]]
    /\ UNCHANGED <<aux, cache, streams, pending, errorsShown, shown>>

\* the lookup rejects before the timer fires: Promise.race rejects
LookupFails(c, message) ==
    /\ call[c].pc = "context"
    /\ Catch(c, "lookup", message)
    /\ UNCHANGED <<aux, cache, streams, pending>>

\* the clipboard read, the recently-edited tracker, the prompt construction
\* or the template throws
ContextFails(c, message) ==
    /\ call[c].pc = "context"
    /\ Catch(c, "context", message)
    /\ UNCHANGED <<aux, cache, streams, pending>>

\* await cache.get(prompt) returns a completion: the outcome is assembled
ProbeHit(c) ==
    /\ call[c].pc = "probe"
    /\ Truthy(CacheGet(cache, call[c].prompt))
    /\ call' = [call EXCEPT ![c] =
                  Outcome([@ EXCEPT !.did = @ \cup {"probe"}],
                          CacheGet(cache, call[c].prompt), TRUE)]
    /\ cache' = CacheTouch(cache, call[c].prompt)
    /\ UNCHANGED <<aux, streams, pending, errorsShown, shown>>

\* the call as it enters the accumulation loop on stream s
Entering(r, s, steps) ==
    [r EXCEPT !.pc = "stream", !.stream = s, !.used = s,
              !.timedOut = FALSE, !.extras = <<>>,
              !.did = @ \cup {"probe", "stops", "acquire"} \cup steps]

\* await cache.get(prompt) returns nothing: the stop list is computed and
\* GeneratorReuseManager.getGenerator shares the pending stream, whose
\* buffered deltas the call receives at once ...
ProbeMissShare(c) ==
    /\ call[c].pc = "probe"
    /\ ~Truthy(CacheGet(cache, call[c].prompt))
    /\ CanShare(call[c].prefix)
    /\ call' = [call EXCEPT ![c] =
                  Replay(c, Entering(@, pending, {}), streams[pending].deltas)]
    /\ UNCHANGED <<aux, cache, streams, pending, errorsShown, shown>>

\* ... or abandons it, which ends it for the calls consuming it, and starts
\* a new one with llm.streamComplete
ProbeMissStart(c) ==
    /\ call[c].pc = "probe"
    /\ ~Truthy(CacheGet(cache, call[c].prompt))
    /\ ~CanShare(call[c].prefix)
    /\ pending' = Len(streams) + 1
    /\ streams' =
         Append([s \in DOMAIN streams |->
                    IF s = pending THEN Destroyed(streams[s], "abandoned")
                    ELSE streams[s]],
                NewStream(c, call[c].prefix, call[c].prompt))
    /\ call' = [o \in Calls |->
                  IF o = c THEN Entering(call[c], Len(streams) + 1, {"startFn"})
                  ELSE IF pending # 0 /\ o \in Subscribers(pending)
                       THEN Exhaust(call[o])
                  ELSE call[o]]
    /\ UNCHANGED <<aux, cache, errorsShown, shown>>

\* ------------------------------------------------------------------------
\* The model layer
\* ------------------------------------------------------------------------
\* the model delivers a delta on the pending stream: every call consuming
\* the stream receives it
ModelDelta(s, d) ==
    /\ s = pending
    /\ Len(streams[s].deltas) < MaxDeltas
    /\ streams' = [streams EXCEPT ![s].deltas = Append(@, d)]
    /\ call' = [c \in Calls |->
                  IF c \in Subscribers(s) THEN Receive(c, call[c], d)
                  ELSE call[c]]
    /\ UNCHANGED <<aux, cache, pending, errorsShown, shown>>

\* the model ends the pending stream, which is retired; the loops of the
\* calls consuming it end
ModelEnd(s) ==
    /\ s = pending
    /\ pending' = 0
    /\ streams' = [streams EXCEPT ![s] = Destroyed(@, "done")]
    /\ call' = [c \in Calls |->
                  IF c \in Subscribers(s) THEN Exhaust(call[c])
                  ELSE call[c]]
    /\ UNCHANGED <<aux, cache, errorsShown, shown>>

RECURSIVE ShowEach(_, _, _, _)
\* the catch blocks of n calls, one after the other, on the same message
ShowEach(n, es, sh, message) ==
    IF n = 0 THEN [errorsShown |-> es, shown |-> sh]
    ELSE LET r == ShowOnce(es, sh, message)
         IN  ShowEach(n - 1, r.errorsShown, r.shown, message)

\* the provider call fails or returns malformed data: the stream throws in
\* every call consuming it, and is retired
ModelFail(s, message) ==
    /\ s = pending
    /\ pending' = 0
    /\ streams' = [streams EXCEPT ![s] = Destroyed(@, "failed")]
    /\ call' = [c \in Calls |->
                  IF c \in Subscribers(s)
                  THEN Thrown(call[c], "stream", message)
                  ELSE call[c]]
    /\ LET r == ShowEach(Cardinality(Subscribers(s)), errorsShown, shown,
                         message)
       IN  /\ errorsShown' = r.errorsShown
           /\ shown' = r.shown
    /\ UNCHANGED <<aux, cache>>

\* ------------------------------------------------------------------------
\* The host
\* ------------------------------------------------------------------------
\* the host trips the cancellation token of a call
Cancel(c) ==
    /\ call[c].pc \notin {"idle", "done"}
    /\ ~call[c].token
    /\ call' = [call EXCEPT ![c].token = TRUE]
    /\ UNCHANGED <<aux, cache, streams, pending, errorsShown, shown>>

\* the cache entry of a first miss followed by success is created
HostStore(c) ==
    /\ call[c].pc = "done"
    /\ call[c].result.state = "Served"
    /\ ~call[c].result.cacheHit
    /\ ~call[c].stored
    /\ cache' = CachePut(cache, call[c].result.prompt,
                         call[c].result.completion)
    /\ call' = [call EXCEPT ![c].stored = TRUE]
    /\ UNCHANGED <<aux, streams, pending, errorsShown, shown>>

Next ==
    \/ \E c \in Calls, d \in Docs : Start(c, d)
    \/ \E c \in Calls : ResolveModel(c)
    \/ \E c \in Calls : ResolveAbsent(c)
    \/ \E c \in Calls, m \in Messages : ResolveFails(c, m)
    \/ \E c \in Calls, t \in BOOLEAN : BuildContext(c, t)
    \/ \E c \in Calls, m \in Messages : LookupFails(c, m)
    \/ \E c \in Calls, m \in Messages : ContextFails(c, m)
    \/ \E c \in Calls : ProbeHit(c)
    \/ \E c \in Calls : ProbeMissShare(c)
    \/ \E c \in Calls : ProbeMissStart(c)
    \/ \E s \in StreamIds, d \in Deltas : ModelDelta(s, d)
    \/ \E s \in StreamIds : ModelEnd(s)
    \/ \E s \in StreamIds, m \in Messages : ModelFail(s, m)
    \/ \E c \in Calls : Cancel(c)
    \/ \E c \in Calls : HostStore(c)

Spec == Init /\ [][Next]_vars

\* a step of call c that the event loop runs once its await has settled:
\* the model handle, the context lookups, the cache probe
Progress(c) ==
    \/ ResolveModel(c)
    \/ ResolveAbsent(c)
    \/ \E m \in Messages : ResolveFails(c, m)
    \/ \E t \in BOOLEAN : BuildContext(c, t)
    \/ \E m \in Messages : LookupFails(c, m)
    \/ \E m \in Messages : ContextFails(c, m)
    \/ ProbeHit(c)
    \/ ProbeMissShare(c)
    \/ ProbeMissStart(c)

\* a step of the model on the pending stream
Streaming ==
    \E s \in StreamIds :
        \/ \E d \in Deltas : ModelDelta(s, d)
        \/ ModelEnd(s)
        \/ \E m \in Messages : ModelFail(s, m)

\* a continuation that is ready to run, or the model at work
Running == (\E c \in Calls : Progress(c)) \/ Streaming

\* the event loop runs a ready continuation, the awaits settling and a
\* model stream going on until it is exhausted or fails; the host is free
\* to issue, cancel and store or not
FairSpec == Spec /\ WF_vars(Running)

\* ------------------------------------------------------------------------
\* The CompletionCache on its own: any sequence of get and put on a cache
\* of capacity N
\* ------------------------------------------------------------------------
CacheKeyPool == { "k1", "k2", "k3" }

CacheValuePool == { <<"v">>, <<"w">> }

\* the rest of the state, at rest while one operation is examined
AtRest ==
    /\ call = [c \in Calls |-> CallInit]
    /\ streams = <<>>
    /\ pending = 0
    /\ errorsShown = {}
    /\ shown = <<>>

\* cacheOp:
\*   capacity  N
\*   op, key   the last operation and its key
\*   result    what the last get returned
\*   read      the key the operation before the last one read by a get that
\*             hit, or "none"
\*   evicted   the keys the last operation removed
\*   order     the keys in the cache by their last access (a put, or a get
\*             that hit), least recent first
InitLru ==
    /\ AtRest
    /\ cache = <<>>
    /\ cacheOp \in { [NoCacheOp EXCEPT !.capacity = n] : n \in 1..MaxCapacity }
    /\ stopCase = NoStopCase
    /\ llmCase = NoLlmCase

\* the key a get that hit has just read
JustRead ==
    IF cacheOp.op = "get" /\ cacheOp.result # None THEN cacheOp.key
    ELSE "none"

\* the access order after an access of key, among the keys still stored
Accessed(order, key, stored) ==
    SelectSeq(SelectSeq(order, LAMBDA k : k # key) \o <<key>>,
              LAMBDA k : k \in stored)

\* cache.get(key)
LruGet(key) ==
    /\ cache' = CacheTouch(cache, key)
    /\ cacheOp' = [cacheOp EXCEPT
                      !.op = "get", !.key = key,
                      !.result = CacheGet(cache, key),
                      !.read = JustRead,
                      !.evicted = {},
                      !.order = IF key \in CacheKeys(cache)
                                THEN Accessed(@, key, CacheKeys(cache))
                                ELSE @]
    /\ UNCHANGED <<call, streams, pending, errorsShown, shown, stopCase,
                   llmCase>>

\* cache.put(key, value)
LruPut(key, value) ==
    /\ cache' = CachePutAt(cache, key, value, cacheOp.capacity)
    /\ cacheOp' = [cacheOp EXCEPT
                      !.op = "put", !.key = key,
                      !.result = None,
                      !.read = JustRead,
                      !.evicted = CacheKeys(cache) \ CacheKeys(cache'),
                      !.order = Accessed(@, key, CacheKeys(cache'))]
    /\ UNCHANGED <<call, streams, pending, errorsShown, shown, stopCase,
                   llmCase>>

NextLru ==
    \/ \E key \in CacheKeyPool : LruGet(key)
    \/ \E key \in CacheKeyPool, value \in CacheValuePool : LruPut(key, value)

SpecLru == InitLru /\ [][NextLru]_vars

\* ------------------------------------------------------------------------
\* The stop list of the miss path on its own
\* ------------------------------------------------------------------------
\* completionOptions of getTemplateForModel(llm.model): undefined, without
\* stop, or with the template's stop sequences
Undefined == [defined |-> FALSE, stop |-> None]

ModelOptions ==
    { Undefined,
      [defined |-> TRUE, stop |-> None],
      [defined |-> TRUE, stop |-> <<"</s>">>],
      [defined |-> TRUE, stop |-> <<"<EOT>", "</s>">>] }

\* lang.stopWords
StopWords == { <<>>, <<"def">>, <<"class", "def">> }

\* options.multilineCompletions
MultilineCompletions == { "always", "never", "auto" }

\* the completionOptions the call works with: {} under options.template,
\* the model template's otherwise
CompletionOptionsFor(template, modelOptions) ==
    IF template THEN [defined |-> TRUE, stop |-> None] ELSE modelOptions

\* the two hardcoded separators: a blank line and a code fence (three
\* backquotes)
Separators == <<"\n\n", "fence">>

\* completionOptions?.stop || []
DefaultStops(completionOptions) ==
    IF ~completionOptions.defined THEN <<>>
    ELSE IF completionOptions.stop = None THEN <<>>
    ELSE completionOptions.stop

\* the stop list with "\n" at its front unless multiline is forced on
StopListUnlessAlways(completionOptions, stopWords, multilineCompletions, completeMultiline) ==
    LET stop == DefaultStops(completionOptions) \o Separators
                    \o stopWords
    IN  IF multilineCompletions # "always" THEN <<"\n">> \o stop ELSE stop

\* the stop list passed to llm.streamComplete
StopList(completionOptions, stopWords, multilineCompletions, completeMultiline) ==
    LET stop == DefaultStops(completionOptions) \o Separators
                    \o stopWords
    IN  IF /\ multilineCompletions # "always"
           /\ (multilineCompletions = "never" \/ ~completeMultiline)
        THEN <<"\n">> \o stop
        ELSE stop

InitStops ==
    /\ AtRest
    /\ cache = <<>>
    /\ cacheOp = NoCacheOp
    /\ llmCase = NoLlmCase
    /\ stopCase \in
         { [stage |-> "miss", template |-> t, modelOptions |-> o,
            stopWords |-> w, multilineCompletions |-> m,
            completeMultiline |-> cm, stop |-> <<>>] :
              t \in BOOLEAN, o \in ModelOptions, w \in StopWords,
              m \in MultilineCompletions, cm \in BOOLEAN }

\* the miss path computes the stop list
ComputeStops ==
    /\ stopCase.stage = "miss"
    /\ stopCase' =
         [stopCase EXCEPT
            !.stage = "passed",
            !.stop = StopList(CompletionOptionsFor(stopCase.template,
                                                   stopCase.modelOptions),
                              stopCase.stopWords,
                              stopCase.multilineCompletions,
                              stopCase.completeMultiline)]
    /\ UNCHANGED <<call, cache, streams, pending, errorsShown, shown, cacheOp,
                   llmCase>>

NextStops == ComputeStops

SpecStops == InitStops /\ [][NextStops]_vars

\* ------------------------------------------------------------------------
\* llmFromDescription (core/protocol/core.ts) on its own
\* ------------------------------------------------------------------------
\* an optional property of an options object: missing, or present with a
\* number
Missing == [has |-> FALSE, v |-> 0]

Some(n) == [has |-> TRUE, v |-> n]

\* the provider classes in the order of the registry; two of them answer
\* to one provider name. model "" and maxTokens 0 stand for a default the
\* class does not define
LLMs ==
    << [cls |-> "GooglePalmProxy", providerName |-> "google-palm",
        model |-> "", maxTokens |-> 0],
       [cls |-> "GooglePalm", providerName |-> "google-palm",
        model |-> "chat-bison-001", maxTokens |-> 0],
       [cls |-> "Ollama", providerName |-> "ollama",
        model |-> "", maxTokens |-> 2048],
       [cls |-> "OpenAI", providerName |-> "openai",
        model |-> "gpt-3.5-turbo", maxTokens |-> 4096] >>

\* desc.provider
Providers == { "google-palm", "ollama", "openai", "unregistered" }

\* desc.model: "" stands for a name that is missing or empty
ModelNames == { "", "gpt-4" }

\* a completion options object, or undefined
OptionObjects ==
    { [defined |-> FALSE, maxTokens |-> Missing, temperature |-> Missing] }
    \cup { [defined |-> TRUE, maxTokens |-> mt, temperature |-> t] :
               mt \in { Missing, Some(0), Some(512) },
               t \in { Missing, Some(1) } }

\* { ...a, ...b } with the first object's property winning
SpreadFirstWins(a, b) ==
    [defined |-> TRUE,
     maxTokens |-> IF a.defined /\ a.maxTokens.has THEN a.maxTokens
                   ELSE IF b.defined THEN b.maxTokens ELSE Missing,
     temperature |-> IF a.defined /\ a.temperature.has THEN a.temperature
                     ELSE IF b.defined THEN b.temperature ELSE Missing]

\* { ...a, ...b }: a property of b overrides a's; undefined spreads to
\* nothing
Spread(a, b) ==
    [defined |-> TRUE,
     maxTokens |-> IF b.defined /\ b.maxTokens.has THEN b.maxTokens
                   ELSE IF a.defined THEN a.maxTokens ELSE Missing,
     temperature |-> IF b.defined /\ b.temperature.has THEN b.temperature
                     ELSE IF a.defined THEN a.temperature ELSE Missing]

\* LLMs.find((llm) => llm.providerName === provider): the index of the
\* first match, or 0
Find(provider) ==
    IF \E i \in 1..Len(LLMs) : LLMs[i].providerName = provider
    THEN CHOOSE i \in 1..Len(LLMs) :
            /\ LLMs[i].providerName = provider
            /\ \A j \in 1..(i - 1) : LLMs[j].providerName # provider
    ELSE 0

\* a || b || c on model names
FirstName(a, b, c) == IF a # "" THEN a ELSE IF b # "" THEN b ELSE c

\* a || b || c on token counts, a being an optional property
FirstCount(a, b, c) ==
    IF a.has /\ a.v # 0 THEN a.v ELSE IF b # 0 THEN b ELSE c

llmFromDescription(desc, completionOptions) ==
    LET i == Find(desc.provider)
        finalCompletionOptions == Spread(completionOptions,
                                         desc.completionOptions)
    IN  IF i = 0 THEN NoInstance
        ELSE [cls |-> LLMs[i].cls,
              provider |-> desc.provider,
              descModel |-> desc.model,
              temperature |-> finalCompletionOptions.temperature,
              model |-> FirstName(desc.model, LLMs[i].model, "codellama-7b"),
              maxTokens |-> FirstCount(finalCompletionOptions.maxTokens,
                                       LLMs[i].maxTokens, 1024)]

InitLlm ==
    /\ AtRest
    /\ cache = <<>>
    /\ cacheOp = NoCacheOp
    /\ stopCase = NoStopCase
    /\ llmCase \in
         { [stage |-> "called",
            desc |-> [provider |-> p, model |-> m, completionOptions |-> d],
            completionOptions |-> a,
            llm |-> NoInstance] :
              p \in Providers, m \in ModelNames, d \in OptionObjects,
              a \in OptionObjects }

\* the call returns
ReturnLlm ==
    /\ llmCase.stage = "called"
    /\ llmCase' = [llmCase EXCEPT
                      !.stage = "returned",
                      !.llm = llmFromDescription(llmCase.desc,
                                                 llmCase.completionOptions)]
    /\ UNCHANGED <<call, cache, streams, pending, errorsShown, shown, cacheOp,
                   stopCase>>

NextLlm == ReturnLlm

SpecLlm == InitLlm /\ [][NextLlm]_vars

\* ------------------------------------------------------------------------
\* Properties
\* ------------------------------------------------------------------------
\* call c returns in this step
Returns(c) == call[c].pc # "done" /\ call'[c].pc = "done"

\* call c returns in this step on the miss path, out of the accumulation
\* loop, without a failure
ReturnsFromLoop(c) ==
    /\ Returns(c)
    /\ call'[c].used # 0
    /\ call'[c].err = NoError

\* call c receives a delta in this step: a new one from its stream, or the
\* buffered ones of the stream it joins
ReceivesDelta(c) ==
    \/ /\ call[c].pc = "stream"
       /\ Len(streams'[call[c].stream].deltas)
            > Len(streams[call[c].stream].deltas)
    \/ /\ call[c].pc = "probe"
       /\ call'[c].used # 0
       /\ call'[c].used = pending
       /\ streams[pending].deltas # <<>>

\* C1 (cancellation): a call on the miss path that receives a delta while
\* its cancellation token is tripped returns absent in that step, its
\* accumulated text is not returned, and the step leaves the cache as it
\* was: the call creates no entry for its rendered prompt.
C1_Cancellation ==
    [][\A c \in Calls :
          (call[c].token /\ ReceivesDelta(c)) =>
             /\ call'[c].pc = "done"
             /\ call'[c].result = [NoResult EXCEPT !.state = "Cancelled"]
             /\ cache' = cache
             /\ CacheGet(cache', call[c].prompt)
                  = CacheGet(cache, call[c].prompt)]_vars

\* a call was cancelled at its second delta, after text was accumulated
C1_Witness ==
    \E c \in Calls :
        /\ call[c].result.state = "Cancelled"
        /\ call[c].got = 2
        /\ call[c].used # 0

\* C2 (cache determinism), as claimed: a call that renders the prompt P of
\* an outcome served to an earlier call on the same document, which had
\* returned before this one started, is served from the cache with the
\* same completion text.
C2_CacheDeterminism ==
    \A c \in Calls :
        \A first \in call[c].after :
            (call[c].pc = "done" /\ "probe" \in call[c].did
               /\ call[c].prompt = first.prompt) =>
                /\ call[c].result.state = "Served"
                /\ call[c].result.cacheHit
                /\ call[c].result.completion = first.completion

\* C3 (finalize on success), as claimed: a call that leaves the
\* accumulation loop uncancelled with text that is not empty after trimming
\* returns Served with the text stripped of trailing whitespace, the
\* rendered prompt and cacheHit = false, and has stored the text in the
\* cache under the rendered prompt.
C3_FinalizeOnSuccess ==
    [][\A c \in Calls :
          (ReturnsFromLoop(c) /\ call'[c].result.state = "Served") =>
             /\ TrimEnd(call'[c].result.completion) = call'[c].result.completion
             /\ call'[c].result.prompt = call[c].prompt
             /\ ~call'[c].result.cacheHit
             /\ CacheGet(cache', call[c].prompt) = call'[c].result.completion]_vars

\* C4 (cache probe hit): a call whose probe finds a stored completion for
\* its rendered prompt returns in that step an outcome with cacheHit = true
\* and the stored value unmodified; it does not call the coalescer, starts
\* no stream and computes no stop list.
C4_CacheProbeHit ==
    [][\A c \in Calls :
          (call[c].pc = "probe" /\ call'[c].pc # "probe"
             /\ CacheGet(cache, call[c].prompt) # None) =>
             /\ call'[c].pc = "done"
             /\ call'[c].result =
                  [state |-> "Served",
                   completion |-> CacheGet(cache, call[c].prompt),
                   prompt |-> call[c].prompt, cacheHit |-> TRUE]
             /\ call'[c].did \cap {"stops", "acquire", "startFn"} = {}
             /\ call'[c].used = 0
             /\ streams' = streams
             /\ pending' = pending]_vars

\* a call was served from the cache
C4_Witness ==
    \E c \in Calls :
        /\ call[c].result.state = "Served"
        /\ call[c].result.cacheHit
        /\ call[c].result.completion # <<>>

\* C5 (empty suppression): no call is served a completion that is empty
\* after trimming, and no cache entry has a value that is empty after
\* trimming; a call whose accumulated text trims to empty is not served.
C5_EmptySuppression ==
    /\ \A c \in Calls :
          call[c].result.state = "Served" =>
              Trim(call[c].result.completion) # <<>>
    /\ \A i \in 1..Len(cache) : Trim(cache[i].value) # <<>>

\* a call on the miss path accumulated two deltas of whitespace (no line
\* below the cursor could stop it, no text delta was received) and
\* returned Empty
C5_Witness ==
    \E c \in Calls :
        /\ call[c].result.state = "Empty"
        /\ call[c].used # 0
        /\ call[c].got = 2
        /\ call[c].doc.below = <<>>

\* the cursor is at or past the end of a line that ends with one of the
\* language's end-of-line markers
AtClosedStatement(d) ==
    /\ d.col >= Len(d.line)
    /\ \E marker \in EndOfLine : EndsWith(d.line, marker)

\* C6 (end-of-line filter): a call with the cursor at or past the end of a
\* line ending with an end-of-line marker has returned Empty as soon as it
\* was issued: the model is not resolved, the cache not probed, the
\* coalescer not called, no stream started.
C6_EndOfLineFilter ==
    \A c \in Calls :
        (call[c].pc # "idle" /\ AtClosedStatement(call[c].doc)) =>
            /\ call[c].pc = "done"
            /\ call[c].result = [NoResult EXCEPT !.state = "Empty"]
            /\ call[c].did = {}
            /\ call[c].used = 0
            /\ \A s \in DOMAIN streams : streams[s].by # c

\* a call was filtered
C6_Witness ==
    \E c \in Calls :
        /\ call[c].pc = "done"
        /\ AtClosedStatement(call[c].doc)

\* the streams that can still deliver
Live == { s \in DOMAIN streams : streams[s].status = "live" }

C8_CoalescerRace ==
    /\ [](\A c1, c2 \in Calls :
            (c1 # c2 /\ call[c1].pc = "stream" /\ call[c2].pc = "stream"
               /\ call[c1].prefix = call[c2].prefix) =>
                /\ call[c1].stream = call[c2].stream
                /\ ("startFn" \in call[c1].did) # ("startFn" \in call[c2].did))
    /\ [][\A c, o \in Calls :
            (/\ c # o
             /\ call[c].pc = "probe" /\ call'[c].used # 0
             /\ call[o].pc = "stream"
             /\ call[o].prefix = call[c].prefix) =>
                /\ call'[c].used = call[o].stream
                /\ Len(streams') = Len(streams)
                /\ pending' = pending
                /\ "startFn" \notin call'[c].did
                /\ "startFn" \in call[o].did
                /\ Cardinality({ s \in DOMAIN streams' :
                                   streams'[s].keyPrefix = call[c].prefix
                                   /\ streams'[s].status = "live" }) = 1]_vars

\* two overlapping calls with the same prefix are in the accumulation loop
C8_Witness ==
    \E c1, c2 \in Calls :
        /\ c1 # c2
        /\ call[c1].pc = "stream"
        /\ call[c2].pc = "stream"
        /\ call[c1].prefix = call[c2].prefix

\* occurrences of message m among the messages shown to the host
TimesIn(sh, m) == Cardinality({ i \in 1..Len(sh) : sh[i] = m })

TimesShown(m) == TimesIn(shown, m)

\* C9 (error containment and deduplication): a call in which a step threw
\* has returned absent; every message thrown so far has been shown to the
\* host exactly once, and no message is shown twice.
C9_ErrorDedup ==
    /\ \A c \in Calls :
          call[c].err # NoError =>
              /\ call[c].pc = "done"
              /\ call[c].result = [NoResult EXCEPT !.state = "Failed"]
              /\ TimesShown(call[c].err.message) = 1
    /\ \A m \in Messages : TimesShown(m) <= 1
    /\ errorsShown = { shown[i] : i \in 1..Len(shown) }

\* two calls failed with the same message
C9_Witness ==
    \E c1, c2 \in Calls :
        /\ c1 # c2
        /\ call[c1].err # NoError
        /\ call[c1].err.message = call[c2].err.message
        /\ call[c1].err.kind # call[c2].err.kind

\* C10 (propagation policy), as claimed: a message is shown to the host
\* only when a model stream throws.
C10_OnlyStreamErrorsShown ==
    [][shown' # shown =>
          \E c \in Calls :
              /\ call[c].err = NoError
              /\ call'[c].err.kind = "stream"]_vars

\* C10, amended: a message is shown to the host exactly when a step inside
\* the try block throws (model resolution, the lookup rejecting ahead of
\* the timer, context building, the model stream) and the message has not
\* been shown before; a lookup timeout lets the call go on, and a call
\* that returns Served, Empty or Cancelled shows nothing.
C10_ThrownErrorsShown ==
    [][/\ shown' # shown =>
             \E c \in Calls :
                 /\ call[c].err = NoError
                 /\ call'[c].err.kind \in {"resolve", "lookup", "context",
                                           "stream"}
                 /\ call'[c].err.message \notin errorsShown
                 /\ shown' = Append(shown, call'[c].err.message)
       /\ \A c \in Calls :
             (call[c].err = NoError /\ call'[c].err # NoError) =>
                 /\ Returns(c)
                 /\ TimesIn(shown', call'[c].err.message) = 1
       /\ \A c \in Calls :
             (Returns(c) /\ call'[c].err = NoError
                /\ \A o \in Calls : call'[o].err = call[o].err) =>
                 shown' = shown
       /\ \A c \in Calls :
             (call[c].pc = "context" /\ call'[c].timedOut) =>
                 /\ call'[c].pc = "probe"
                 /\ call'[c].extras = <<>>
                 /\ shown' = shown]_vars

\* a context-building failure was shown to the host
C10_Witness ==
    \E c \in Calls :
        /\ call[c].err.kind \in {"context", "lookup", "resolve"}
        /\ TimesShown(call[c].err.message) = 1


\* a put of a key that is not stored finds the cache full
PutIntoFull(key) ==
    /\ cacheOp'.op = "put"
    /\ cacheOp'.key = key
    /\ key \notin CacheKeys(cache)
    /\ Len(cache) = cacheOp.capacity

\* the bound, what a get returns and what an eviction removes
LruEvictsLeastRecent ==
    /\ [](Len(cache) <= cacheOp.capacity)
    /\ [](Cardinality(CacheKeys(cache)) = Len(cache))
    /\ [][/\ \A key \in CacheKeyPool :
               PutIntoFull(key) =>
                  /\ cacheOp'.evicted = { cacheOp.order[1] }
                  /\ CacheKeys(cache')
                       = (CacheKeys(cache) \ { cacheOp.order[1] }) \cup {key}
          /\ cacheOp'.op = "get" =>
                  /\ CacheKeys(cache') = CacheKeys(cache)
                  /\ \A k \in CacheKeys(cache) :
                        CacheGet(cache', k) = CacheGet(cache, k)
          /\ (cacheOp'.op = "put"
                /\ ~(\E key \in CacheKeyPool : PutIntoFull(key))) =>
                  cacheOp'.evicted = {}]_vars

RECURSIVE Flat(_)
\* the text a sequence of deltas makes
Flat(ds) == IF ds = <<>> THEN <<>> ELSE ds[1] \o Flat(Tail(ds))

RECURSIVE JoinLines(_)
\* lines joined by newlines
JoinLines(lines) ==
    IF lines = <<>> THEN <<>>
    ELSE IF Len(lines) = 1 THEN lines[1]
    ELSE lines[1] \o <<"\n">> \o JoinLines(Tail(lines))

RECURSIVE LinesBefore(_, _)
\* the lines ahead of the first one similar to lineBelowCursor
LinesBefore(lines, lineBelowCursor) ==
    IF lines = <<>> \/ Similar(lines[1], lineBelowCursor) THEN <<>>
    ELSE <<lines[1]>> \o LinesBefore(Tail(lines), lineBelowCursor)

\* the complete lines of a text
CompleteLines(text) == SplitLines(<<>>, text).lines

HasSimilarLine(text, lineBelowCursor) ==
    \E i \in 1..Len(CompleteLines(text)) :
        Similar(CompleteLines(text)[i], lineBelowCursor)

\* the stream call c consumes in this step, and the deltas it has delivered
\* by the end of the step
StreamOf(c) == IF call[c].pc = "stream" THEN call[c].stream ELSE call'[c].used

DeliveredTo(c) ==
    IF streams'[StreamOf(c)].status = "live"
    THEN streams'[StreamOf(c)].deltas
    ELSE streams[StreamOf(c)].deltas

\* C12 (similar-line stop): a call that receives, uncancelled, a delta that
\* completes a line similar to lineBelowCursor leaves the loop in that step,
\* and the text it returns is made of the lines produced before the
\* matching line only (trailing whitespace removed); when those lines are
\* blank the call returns absent.
C12_SimilarLineStop ==
    [][\A c \in Calls :
          LET text == Flat(DeliveredTo(c))
              kept == JoinLines(LinesBefore(CompleteLines(text),
                                            call[c].doc.below))
          IN  (/\ ReceivesDelta(c)
               /\ call'[c].result.state # "Cancelled"
               /\ HasSimilarLine(text, call[c].doc.below)) =>
                  /\ ReturnsFromLoop(c)
                  /\ IF Trim(kept) = <<>>
                     THEN call'[c].result = [NoResult EXCEPT !.state = "Empty"]
                     ELSE /\ call'[c].result.state = "Served"
                          /\ call'[c].result.completion = TrimEnd(kept)
                          /\ ~call'[c].result.cacheHit]_vars

\* a call was served the line produced before a line equal to the line
\* below the cursor, and its stream had not ended
C12_Witness ==
    \E c \in Calls :
        /\ call[c].result.state = "Served"
        /\ ~call[c].result.cacheHit
        /\ call[c].doc.below = <<";">>
        /\ call[c].result.completion = <<"a">>
        /\ call[c].used \in DOMAIN streams
        /\ streams[call[c].used].status = "live"
        /\ streams[call[c].used].deltas = << <<"a", "\n">>, <<";", "\n">> >>


RECURSIVE Piped(_, _, _)
\* the chunks the pipeline makes of the deltas ds, taken in their order
Piped(p, ds, lineBelowCursor) ==
    IF ds = <<>> THEN <<>>
    ELSE LET f == PipeFeed(p, ds[1], lineBelowCursor)
         IN  IF f.pipe.stopped THEN f.out
             ELSE f.out \o Piped(f.pipe, Tail(ds), lineBelowCursor)

RECURSIVE IsSubsequence(_, _)
\* s can be read off t from left to right
IsSubsequence(s, t) ==
    IF s = <<>> THEN TRUE
    ELSE IF t = <<>> THEN FALSE
    ELSE IF s[1] = t[1] THEN IsSubsequence(Tail(s), Tail(t))
    ELSE IsSubsequence(s, Tail(t))

\* C13 (ordering): the text a call has accumulated is the concatenation of
\* the pipeline's chunks over the deltas of its stream in the order the
\* model produced them: it reads off the raw text from left to right,
\* nothing reordered or duplicated, and it only grows at its end. Every
\* call consuming a stream has received all its deltas, in that order.
C13_Ordering ==
    /\ [](\A c \in Calls :
            call[c].pc = "stream" =>
               LET ds == streams[call[c].stream].deltas
               IN  /\ call[c].got = Len(ds)
                   /\ call[c].completion = Piped(PipeInit, ds, call[c].doc.below)
                   /\ IsSubsequence(call[c].completion, Flat(ds)))
    /\ [](\A c1, c2 \in Calls :
            (/\ call[c1].pc = "stream" /\ call[c2].pc = "stream"
             /\ call[c1].stream = call[c2].stream
             /\ call[c1].doc.below = call[c2].doc.below) =>
                /\ call[c1].got = call[c2].got
                /\ call[c1].completion = call[c2].completion)
    /\ [][\A c \in Calls :
             (call[c].pc = "stream" /\ call'[c].pc = "stream") =>
                StartsWith(call'[c].completion, call[c].completion)]_vars

\* two calls with different prefixes share a stream that has delivered two
\* deltas, and both have accumulated them in the order delivered
C13_Witness ==
    \E c1, c2 \in Calls :
        /\ c1 # c2
        /\ call[c1].pc = "stream" /\ call[c2].pc = "stream"
        /\ call[c1].stream = call[c2].stream
        /\ call[c1].prefix # call[c2].prefix
        /\ streams[call[c1].stream].deltas = << <<" ">>, <<"a", "\n">> >>
        /\ call[c1].completion = <<" ", "a">>
        /\ call[c2].completion = <<" ", "a">>


\* the list without a leading newline: the template's default stops (none
\* under options.template), the two separators, the language's stop words
StopsInOrder ==
    (IF stopCase.template \/ stopCase.modelOptions.stop = None
     THEN <<>> ELSE stopCase.modelOptions.stop)
        \o Separators \o stopCase.stopWords

\* C14 (stop-sequence list), as claimed: the list passed to the model is
\* the default stops, the two separators and the stop words in that order,
\* with a single newline at the front in every case except
\* multilineCompletions = "always".
C14_StopList ==
    stopCase.stage = "passed" =>
        stopCase.stop =
            (IF stopCase.multilineCompletions = "always" THEN <<>>
             ELSE <<"\n">>) \o StopsInOrder

\* C14, amended: the same order, with a single newline at the front when
\* multilineCompletions is "never", or is "auto" and the prompt
\* construction did not ask for a multiline completion; there is none when
\* multilineCompletions is "always", or is "auto" with completeMultiline.
C14_StopListAuto ==
    stopCase.stage = "passed" =>
        /\ stopCase.multilineCompletions = "never" =>
               stopCase.stop = <<"\n">> \o StopsInOrder
        /\ stopCase.multilineCompletions = "always" =>
               stopCase.stop = StopsInOrder
        /\ (stopCase.multilineCompletions = "auto"
              /\ ~stopCase.completeMultiline) =>
               stopCase.stop = <<"\n">> \o StopsInOrder
        /\ (stopCase.multilineCompletions = "auto"
              /\ stopCase.completeMultiline) =>
               stopCase.stop = StopsInOrder

\* in auto mode with a multiline completion asked for, the list starts
\* with the template's stops and has no newline stop
C14_Witness ==
    /\ stopCase.stage = "passed"
    /\ stopCase.multilineCompletions = "auto"
    /\ stopCase.completeMultiline
    /\ stopCase.stopWords # <<>>
    /\ stopCase.stop[1] = "<EOT>"


\* the streams call c has started with startFn
StartedBy(ss, c) == { s \in DOMAIN ss : ss[s].by = c }

\* C15 (no retry on model failure): a call starts at most one stream and,
\* once it consumes a stream, never acquires or starts another; when its
\* stream fails, at the start or part-way, the stream is retired as failed,
\* no stream is started in its place, the call returns absent in that step
\* and the cache is left as it was; nothing is stored for the call later.
C15_NoRetry ==
    /\ [](\A c \in Calls :
            /\ Cardinality(StartedBy(streams, c)) <= 1
            /\ call[c].err.kind = "stream" =>
                  /\ call[c].pc = "done"
                  /\ call[c].result = [NoResult EXCEPT !.state = "Failed"]
                  /\ ~call[c].stored
                  /\ \A i \in 1..Len(cache) :
                        cache[i].key = call[c].prompt =>
                           \E o \in Calls \ {c} : call[o].stored)
    /\ [][\A c \in Calls :
             /\ call[c].used # 0 =>
                   /\ call'[c].used = call[c].used
                   /\ StartedBy(streams', c) = StartedBy(streams, c)
             /\ (call[c].err = NoError /\ call'[c].err.kind = "stream") =>
                   /\ call[c].pc = "stream"
                   /\ Returns(c)
                   /\ streams'[call[c].stream].status = "failed"
                   /\ Len(streams') = Len(streams)
                   /\ pending' = 0
                   /\ cache' = cache]_vars

\* the stream a call had started failed after it had delivered a delta
C15_Witness ==
    \E c \in Calls :
        /\ call[c].err.kind = "stream"
        /\ call[c].got >= 1
        /\ "startFn" \in call[c].did
        /\ streams[call[c].used].status = "failed"


\* C16 (context timeout race): when the timer fires ahead of the lookup the
\* call goes on with no snippets: the lookup's result is in neither the
\* prefix nor the prompt, no error is recorded or shown, and the call is at
\* the cache probe, from where it is served from the cache or acquires a
\* stream.
C16_ContextTimeout ==
    [][\A c \in Calls :
             /\ (call[c].pc = "context" /\ call'[c].timedOut) =>
                   /\ call'[c].pc = "probe"
                   /\ call'[c].extras = <<>>
                   /\ call'[c].prefix = FullPrefix(call[c].doc)
                   /\ call'[c].prompt = Render(FullPrefix(call[c].doc),
                                               FullSuffix(call[c].doc))
                   /\ call'[c].err = NoError
                   /\ shown' = shown
                   /\ errorsShown' = errorsShown
             /\ (call[c].pc = "probe" /\ call[c].timedOut
                   /\ call'[c].pc # "probe") =>
                   /\ "probe" \in call'[c].did
                   /\ call'[c].err = NoError
                   /\ \/ call'[c].result.cacheHit
                      \/ call'[c].used # 0]_vars

\* a call on the document whose lookup has a snippet to return was served
\* from a stream it started, on a prompt without the snippet
C16_Witness ==
    \E c \in Calls :
        /\ Definitions(call[c].doc) # <<>>
        /\ call[c].result.state = "Served"
        /\ ~call[c].result.cacheHit
        /\ "startFn" \in call[c].did
        /\ call[c].result.prompt = Render(FullPrefix(call[c].doc),
                                          FullSuffix(call[c].doc))


TerminalStates == { "Served", "Cancelled", "Failed", "Empty" }

\* C17 (termination and single resolution): from some moment on every
\* call that was issued has returned (a call that has returned stays so);
\* a call that has returned is in exactly one of the states
\* Served, Cancelled, Failed, Empty, carries an outcome only when Served,
\* and neither its state nor its outcome changes afterwards. A call in the
\* accumulation loop always consumes the pending stream, which is live.
C17_Termination ==
    /\ <>[](\A c \in Calls : call[c].pc \in {"idle", "done"})
    /\ [](\A c \in Calls :
            /\ call[c].pc = "done" <=> call[c].result.state \in TerminalStates
            /\ call[c].pc # "done" => call[c].result = NoResult
            /\ call[c].result.state # "Served" =>
                  call[c].result
                    = [NoResult EXCEPT !.state = call[c].result.state]
            /\ call[c].result.state = "Served" =>
                  /\ call[c].result.completion # <<>>
                  /\ call[c].result.prompt = call[c].prompt
            /\ call[c].pc = "stream" =>
                  /\ call[c].stream = pending
                  /\ streams[pending].status = "live")
    /\ [][\A c \in Calls :
             call[c].pc = "done" =>
                /\ call'[c].pc = "done"
                /\ call'[c].result = call[c].result
                /\ call'[c].err = call[c].err]_vars

\* two calls have returned in different terminal states, one of them
\* served out of the loop and the other failed
C17_Witness ==
    \E c1, c2 \in Calls :
        /\ call[c1].pc = "done" /\ call[c2].pc = "done"
        /\ call[c1].result.state = "Served"
        /\ call[c1].got >= 1
        /\ call[c2].result.state = "Failed"


\* C18 (cancellation is observed at delta receipt only): a call returns
\* Cancelled exactly in a step in which it receives a delta with its token
\* tripped, and then returns none of the text, the delta included; a call
\* whose stream ends, or is abandoned, after the token was tripped is not
\* cancelled by that and is served the text it has accumulated.
C18_CancelAtDelta ==
    [][\A c \in Calls :
          /\ (Returns(c) /\ call'[c].result.state = "Cancelled") <=>
                (call[c].token /\ ReceivesDelta(c))
          /\ (call[c].token /\ ReceivesDelta(c)) =>
                call'[c].result.completion = <<>>
          /\ (call[c].pc = "stream" /\ call[c].token /\ Returns(c)
                /\ ~ReceivesDelta(c) /\ call'[c].err = NoError) =>
                /\ call'[c].result.state \in {"Served", "Empty"}
                /\ Trim(call[c].completion) # <<>> =>
                      /\ call'[c].result.state = "Served"
                      /\ StartsWith(call'[c].result.completion,
                                    TrimEnd(call[c].completion))
          /\ (call[c].pc = "stream" /\ ~call[c].token /\ call'[c].token) =>
                /\ call'[c].pc = "stream"
                /\ call'[c].completion = call[c].completion]_vars

\* a call was served the text of a delta although its token was tripped
\* by the time it returned: the trip came after the last delta
C18_Witness ==
    \E c \in Calls :
        /\ call[c].result.state = "Served"
        /\ ~call[c].result.cacheHit
        /\ call[c].got >= 1
        /\ "tripped" \in call[c].did

\* C19 (cache hit ignores cancellation): a call whose probe finds a stored
\* completion returns it in a Served outcome with cacheHit = true whether
\* its token is tripped or not.
C19_HitIgnoresCancel ==
    [][\A c \in Calls :
          (call[c].pc = "probe" /\ call'[c].pc # "probe"
             /\ Truthy(CacheGet(cache, call[c].prompt))) =>
             /\ call'[c].result.state = "Served"
             /\ call'[c].result.cacheHit
             /\ call'[c].result.completion = CacheGet(cache, call[c].prompt)
             /\ call'[c].cancelled = FALSE
             /\ ("tripped" \in call'[c].did) = call[c].token]_vars

\* a call was served from the cache with its token tripped
C19_Witness ==
    \E c \in Calls :
        /\ call[c].result.state = "Served"
        /\ call[c].result.cacheHit
        /\ "tripped" \in call[c].did


\* the classes registered under the provider name of the description
Registered(provider) ==
    { i \in 1..Len(LLMs) : LLMs[i].providerName = provider }

\* the value of an option: the description's when it has the option,
\* otherwise the argument's
Merged(option) ==
    IF llmCase.desc.completionOptions.defined
       /\ llmCase.desc.completionOptions[option].has
    THEN llmCase.desc.completionOptions[option]
    ELSE IF llmCase.completionOptions.defined
         THEN llmCase.completionOptions[option]
    ELSE Missing

\* C20 (llmFromDescription): the result is undefined exactly when no class
\* is registered under desc.provider; otherwise it is an instance of the
\* first such class in registry order, whose options take each completion
\* option from desc.completionOptions when present there and from the
\* completionOptions argument otherwise, model from desc.model, else the
\* class default, else "codellama-7b", and maxTokens from the merged
\* maxTokens when truthy, else the class default, else 1024.
C20_LlmFromDescription ==
    llmCase.stage = "returned" =>
        LET hits == Registered(llmCase.desc.provider)
        IN  /\ llmCase.llm = NoInstance <=> hits = {}
            /\ hits # {} =>
                  LET first == CHOOSE i \in hits : \A j \in hits : i <= j
                      class == LLMs[first]
                  IN  /\ llmCase.llm.cls = class.cls
                      /\ llmCase.llm.temperature = Merged("temperature")
                      /\ llmCase.llm.model =
                            (IF llmCase.desc.model # "" THEN llmCase.desc.model
                             ELSE IF class.model # "" THEN class.model
                             ELSE "codellama-7b")
                      /\ llmCase.llm.maxTokens =
                            (IF Merged("maxTokens").has
                                /\ Merged("maxTokens").v # 0
                             THEN Merged("maxTokens").v
                             ELSE IF class.maxTokens # 0 THEN class.maxTokens
                             ELSE 1024)

\* the first of two classes of one provider name was instantiated, with
\* the fallback model, the fallback maxTokens behind a merged maxTokens of
\* 0, and the temperature of the argument
C20_Witness ==
    /\ llmCase.stage = "returned"
    /\ llmCase.llm.cls = "GooglePalmProxy"
    /\ llmCase.llm.model = "codellama-7b"
    /\ llmCase.desc.completionOptions.defined
    /\ llmCase.desc.completionOptions.maxTokens = Some(0)
    /\ llmCase.completionOptions.maxTokens = Some(512)
    /\ llmCase.llm.maxTokens = 1024
    /\ ~llmCase.desc.completionOptions.temperature.has
    /\ llmCase.llm.temperature = Some(1)

====
